---- MODULE Spec2Model ----
(***************************************************************************)
(* Cloudability-Reporter: CloudabilityReporter.get_report, process_data,   *)
(* export_to_excel and main() of cloudability_reports.py as state machines.*)
(*                                                                         *)
(* Strings that the program converts (provider identifiers, raw field      *)
(* names, column names, worksheet names) are sequences of one-character    *)
(* strings, so that str.lower() and str.replace(' ', '_') are computed.    *)
(* Strings the program only compares or passes on (view names, dimension   *)
(* and metric names, dates) are TLA+ strings.                              *)
(***************************************************************************)
EXTENDS Integers, Sequences, FiniteSets, TLC

VARIABLES
    views_config,   \* self.views_config, as loaded by __init__
    mode,           \* which entry point drives the behaviour: "fetch", "normalize", "run", "export"
    requests,       \* every request issued to the Report Source so far (requests.get calls)
    call,           \* the most recent direct call of get_report / process_data and its result
    ncalls,         \* number of direct calls made so far
    args,           \* main: the parsed command line (start_date, end_date)
    pc,             \* main: position in main()
    pi,             \* main: index of the provider being processed
    vi,             \* main: index of the view being processed
    dfs,            \* main: the list dfs of the provider being processed
    cloud_data,     \* main: the dict cloud_data (insertion-ordered), also export's argument
    fetched,        \* main: (provider, view) of every get_report call made by main, in order
    results,        \* main: per view iteration, the frame process_data gave (None if none), in order
    last,           \* main: what the most recent view iteration did
    xs              \* export_to_excel: its local state, the workbook and its return value

vars == <<views_config, mode, requests, call, ncalls, args, pc, pi, vi, dfs,
          cloud_data, fetched, results, last, xs>>

(***************************************************************************)
(* Characters and the two string conversions of the program.               *)
(***************************************************************************)
UPPER == <<"A","B","C","D","E","F","G","H","I","J","K","L","M",
           "N","O","P","Q","R","S","T","U","V","W","X","Y","Z">>
LOWER == <<"a","b","c","d","e","f","g","h","i","j","k","l","m",
           "n","o","p","q","r","s","t","u","v","w","x","y","z">>

\* str.lower() on one character
lower_char(c) ==
    IF \E i \in 1..Len(UPPER) : UPPER[i] = c
    THEN LOWER[CHOOSE i \in 1..Len(UPPER) : UPPER[i] = c]
    ELSE c

\* str.lower()
str_lower(s) == [i \in 1..Len(s) |-> lower_char(s[i])]

\* str.replace(' ', '_')
str_replace_space(s) == [i \in 1..Len(s) |-> IF s[i] = " " THEN "_" ELSE s[i]]

\* Range of a sequence
Range(s) == {s[i] : i \in 1..Len(s)}

\* Sequences over S of length at most n
SeqUpTo(S, n) == UNION {[1..k -> S] : k \in 0..n}

\* A sequence has no repeated element
Distinct(s) == \A i, j \in 1..Len(s) : i # j => s[i] # s[j]

(***************************************************************************)
(* Python values.                                                          *)
(***************************************************************************)
None == [kind |-> "None"]
NoException == "none"

(***************************************************************************)
(* The View Registry: provider -> view name -> {dimensions, metrics}, as   *)
(* insertion-ordered dicts (sequences of entries).                         *)
(***************************************************************************)
AWS == <<"A","W","S">>
Azure == <<"A","z","u","r","e">>
GCP == <<"G","C","P">>

\* The registry of the test suite's setUp
TestViewsConfig == <<
    [provider |-> AWS, views |-> <<
        [name |-> "aws_view1",
         config |-> [dimensions |-> <<"service","resource","tags">>,
                     metrics |-> <<"cost">>]],
        [name |-> "aws_view2",
         config |-> [dimensions |-> <<"service","resource","tags","account","region">>,
                     metrics |-> <<"cost">>]] >>],
    [provider |-> Azure, views |-> <<
        [name |-> "azure_view1",
         config |-> [dimensions |-> <<"service","resource">>,
                     metrics |-> <<"cost">>]],
        [name |-> "azure_view2",
         config |-> [dimensions |-> <<"service","resource","account","region">>,
                     metrics |-> <<"cost">>]] >>] >>

\* Other documents json.load accepts: __init__ stores whatever the file holds.
AzureOnlyConfig == <<TestViewsConfig[2]>>
AwsOnlyConfig == <<TestViewsConfig[1]>>
NoAwsViewsConfig == <<[provider |-> AWS, views |-> <<>>], TestViewsConfig[2]>>
NoMetricsConfig == <<
    [provider |-> AWS, views |-> <<
        TestViewsConfig[1].views[1],
        [name |-> "aws_view2", config |-> [dimensions |-> <<"service">>]] >>],
    TestViewsConfig[2] >>
NoDimensionsConfig == <<
    TestViewsConfig[1],
    [provider |-> Azure, views |-> <<
        [name |-> "azure_view1", config |-> [metrics |-> <<"cost">>]],
        TestViewsConfig[2].views[2] >>] >>

ViewsFiles == {TestViewsConfig, AzureOnlyConfig, AwsOnlyConfig, NoAwsViewsConfig,
               NoMetricsConfig, NoDimensionsConfig}

\* cloud_provider in self.views_config
has_provider(cfg, p) == \E i \in 1..Len(cfg) : cfg[i].provider = p

\* self.views_config[cloud_provider]
provider_views(cfg, p) == cfg[CHOOSE i \in 1..Len(cfg) : cfg[i].provider = p].views

\* self.views_config[cloud_provider].keys()
view_names(cfg, p) ==
    LET vs == provider_views(cfg, p) IN [i \in 1..Len(vs) |-> vs[i].name]

\* view_name in self.views_config[cloud_provider]
has_view(cfg, p, v) == has_provider(cfg, p) /\ v \in Range(view_names(cfg, p))

\* self.views_config[cloud_provider][view_name]
view_config(cfg, p, v) ==
    LET vs == provider_views(cfg, p)
    IN vs[CHOOSE i \in 1..Len(vs) : vs[i].name = v].config

(***************************************************************************)
(* Raw records and response bodies.  A raw record is a dict; the value of  *)
(* field k of the record with identity id is the opaque value <<id, k>>.   *)
(***************************************************************************)
cost == <<"c","o","s","t">>
UnitCost == <<"U","n","i","t"," ","C","o","s","t">>
unit_cost == <<"u","n","i","t","_","c","o","s","t">>
service == <<"s","e","r","v","i","c","e">>

\* Raw field names a response may use
FieldNames == {UnitCost, unit_cost, cost}

\* Bound: fields per raw record
MaxFields == 2
\* Bound: records per response in direct calls of process_data
MaxRecords == 2

\* The key sequences (dict key order) a raw record may have
KeySeqs == {ks \in SeqUpTo(FieldNames, MaxFields) : Distinct(ks)}

\* A response body: {} | a dict without 'data' | {'data': [records]}
EmptyBody == [kind |-> "dict", hasData |-> FALSE, truthy |-> FALSE, data |-> <<>>]
NoDataBody == [kind |-> "dict", hasData |-> FALSE, truthy |-> TRUE, data |-> <<>>]
DataBody(keyseqs, tag) ==
    [kind |-> "dict", hasData |-> TRUE, truthy |-> TRUE,
     data |-> [i \in 1..Len(keyseqs) |-> [id |-> <<tag, i>>, keys |-> keyseqs[i]]]]

Bodies == {EmptyBody, NoDataBody}
            \cup {DataBody(kss, "r") : kss \in SeqUpTo(KeySeqs, MaxRecords)}

(***************************************************************************)
(* get_report (lines 52-104).  outcome is what the Report Source does with *)
(* the request, should one be issued.                                      *)
(***************************************************************************)
TransportFailures == {"ConnectionError", "Timeout", "HTTPError"}

Ok(body) == [kind |-> "ok", body |-> body]
Failure(f) == [kind |-> "fail", error |-> f]

\* build_request with the two dates exchanged
build_request_dates_swapped(view_cfg, start_date, end_date) ==
    [endpoint |-> "/reports/cost",
     start_date |-> end_date,
     end_date |-> start_date,
     dimensions |-> view_cfg.dimensions,
     metrics |-> view_cfg.metrics]

\* The params dict and endpoint of line 87-94
build_request(view_cfg, start_date, end_date) ==
    [endpoint |-> "/reports/cost",
     start_date |-> start_date,
     end_date |-> end_date,
     dimensions |-> view_cfg.dimensions,
     metrics |-> view_cfg.metrics]

\* get_report without the membership test on the provider (line 76)
get_report_no_provider_check(cfg, cloud_provider, view_name, start_date, end_date, outcome) ==
    IF ~has_view(cfg, cloud_provider, view_name)
    THEN [ret |-> None, raised |-> "KeyError", issued |-> <<>>]
    ELSE LET req == build_request(view_config(cfg, cloud_provider, view_name),
                                  start_date, end_date)
         IN IF outcome.kind = "fail"
            THEN [ret |-> None, raised |-> NoException, issued |-> <<req>>]
            ELSE [ret |-> outcome.body, raised |-> NoException, issued |-> <<req>>]

\* get_report without the except clause of line 102
get_report_uncaught(cfg, cloud_provider, view_name, start_date, end_date, outcome) ==
    IF ~has_view(cfg, cloud_provider, view_name)
    THEN [ret |-> None, raised |-> NoException, issued |-> <<>>]
    ELSE LET view_cfg == view_config(cfg, cloud_provider, view_name)
         IN IF ~({"dimensions", "metrics"} \subseteq DOMAIN view_cfg)
            THEN [ret |-> None, raised |-> "KeyError", issued |-> <<>>]
            ELSE LET req == build_request(view_cfg, start_date, end_date)
                 IN IF outcome.kind = "fail"
                    THEN [ret |-> None, raised |-> outcome.error, issued |-> <<req>>]
                    ELSE [ret |-> outcome.body, raised |-> NoException, issued |-> <<req>>]

\* Result of one call: ret (return value), raised (exception leaving the call),
\* issued (requests sent to the Report Source by this call)
get_report(cfg, cloud_provider, view_name, start_date, end_date, outcome) ==
    IF ~has_provider(cfg, cloud_provider)
    THEN [ret |-> None, raised |-> NoException, issued |-> <<>>]
    ELSE IF ~has_view(cfg, cloud_provider, view_name)
    THEN [ret |-> None, raised |-> NoException, issued |-> <<>>]
    ELSE LET view_cfg == view_config(cfg, cloud_provider, view_name)
         IN IF ~({"dimensions", "metrics"} \subseteq DOMAIN view_cfg)
            THEN \* view_config['dimensions'] / ['metrics']: KeyError is not a RequestException
                 [ret |-> None, raised |-> "KeyError", issued |-> <<>>]
            ELSE LET req == build_request(view_cfg, start_date, end_date)
                 IN IF outcome.kind = "fail"
                    THEN [ret |-> None, raised |-> NoException, issued |-> <<req>>]
                    ELSE [ret |-> outcome.body, raised |-> NoException, issued |-> <<req>>]

(***************************************************************************)
(* process_data (lines 106-139) on pandas.DataFrame(list of dicts).        *)
(***************************************************************************)
NaN == [kind |-> "NaN"]
Value(id, field) == [kind |-> "val", id |-> id, field |-> field]

\* keys of ks not yet among cols, in order
new_keys(cols, ks) == SelectSeq(ks, LAMBDA k : k \notin Range(cols))

\* Columns of pd.DataFrame(records): the union of the records' keys, first seen first
RECURSIVE frame_columns(_)
frame_columns(records) ==
    IF records = <<>> THEN <<>>
    ELSE LET front == frame_columns(SubSeq(records, 1, Len(records) - 1))
         IN front \o new_keys(front, records[Len(records)].keys)

\* pd.DataFrame(records): one row per record, NaN where a record lacks a column
pd_DataFrame(records) ==
    LET cols == frame_columns(records)
    IN [kind |-> "df",
        columns |-> cols,
        rows |-> [i \in 1..Len(records) |->
                    [j \in 1..Len(cols) |->
                        IF cols[j] \in Range(records[i].keys)
                        THEN Value(records[i].id, cols[j])
                        ELSE NaN]]]

\* df.empty: some axis has length 0
df_empty(df) == Len(df.rows) = 0 \/ Len(df.columns) = 0

\* len(df)
df_len(df) == Len(df.rows)

\* clean_column_name without the replacement of spaces
clean_column_name_lower_only(name) == str_lower(name)

\* One column label through .str.lower().str.replace(' ', '_') (line 133)
clean_column_name(name) == str_replace_space(str_lower(name))

\* df.columns = df.columns.str.lower().str.replace(' ', '_')
clean_columns(df) ==
    [df EXCEPT !.columns = [j \in 1..Len(df.columns) |-> clean_column_name(df.columns[j])]]

\* The numeric down-casts of lines 127-130 change the dtype of a column, never
\* its label nor the number of rows; cell values are opaque here.
downcast_numeric(df) == df

\* process_data reading the records with data.get('data', [])
process_data_default_empty(data, view_name) ==
    LET df == pd_DataFrame(data.data)
    IN IF ~df_empty(df) THEN clean_columns(downcast_numeric(df)) ELSE df

\* Return value of process_data: a frame, or None when an exception was caught.
\* view_name is only logged.
process_data(data, view_name) ==
    IF ~data.hasData
    THEN None                       \* data['data'] raises KeyError, caught at line 137
    ELSE LET df == pd_DataFrame(data.data)
         IN IF ~df_empty(df)
            THEN clean_columns(downcast_numeric(df))
            ELSE df

(***************************************************************************)
(* Direct calls of the two methods (as the test suite makes them).         *)
(***************************************************************************)
Providers == {AWS, Azure, GCP}
ViewNames == {"aws_view1", "aws_view2", "azure_view1", "azure_view2", "invalid_view"}
Dates == {"2024-01-01", "2024-01-31"}

\* Bound: direct calls of get_report in one behaviour
MaxCalls == 1

\* What the Report Source may answer to one request
Outcomes == {Failure(f) : f \in TransportFailures}
              \cup {Ok(NoDataBody), Ok(DataBody(<<<<cost>>>>, "r"))}

NoCall == [op |-> "none"]
\* export_to_excel not entered
Idle == [pc |-> "idle", chunk_size |-> 0, k |-> 0, start_idx |-> 0,
         sheets |-> <<>>, log |-> <<>>, ret |-> "none", error |-> "none", file |-> "absent"]

InitCommon ==
    /\ requests = <<>>
    /\ call = NoCall
    /\ ncalls = 0
    /\ args = [start_date |-> "2024-01-01", end_date |-> "2024-01-31"]
    /\ pc = "idle"
    /\ pi = 0
    /\ vi = 0
    /\ dfs = <<>>
    /\ cloud_data = <<>>
    /\ fetched = <<>>
    /\ results = <<>>
    /\ last = [kind |-> "none"]
    /\ xs = Idle

InitFetch ==
    /\ views_config \in ViewsFiles
    /\ mode = "fetch"
    /\ InitCommon

\* reporter.get_report(cloud_provider, view_name, start_date, end_date)
GetReportCall ==
    /\ mode = "fetch"
    /\ ncalls < MaxCalls
    /\ \E p \in Providers, v \in ViewNames, sd \in Dates, ed \in Dates, o \in Outcomes :
         LET r == get_report(views_config, p, v, sd, ed, o)
         IN /\ call' = [op |-> "get_report", cloud_provider |-> p, view_name |-> v,
                        start_date |-> sd, end_date |-> ed, outcome |-> o,
                        ret |-> r.ret, raised |-> r.raised, before |-> Len(requests)]
            /\ requests' = requests \o r.issued
    /\ ncalls' = ncalls + 1
    /\ UNCHANGED <<views_config, mode, args, pc, pi, vi, dfs, cloud_data, fetched, results, last, xs>>

NextFetch == GetReportCall

SpecFetch == InitFetch /\ [][NextFetch]_vars

\* The argument of a direct call of process_data is drawn, then the call is made.
InitNormalize ==
    /\ views_config = TestViewsConfig
    /\ mode = "normalize"
    /\ requests = <<>>
    /\ call \in {[op |-> "pending", data |-> b, view_name |-> v] :
                    b \in Bodies, v \in ViewNames}
    /\ ncalls = 0
    /\ args = [start_date |-> "2024-01-01", end_date |-> "2024-01-31"]
    /\ pc = "idle"
    /\ pi = 0
    /\ vi = 0
    /\ dfs = <<>>
    /\ cloud_data = <<>>
    /\ fetched = <<>>
    /\ results = <<>>
    /\ last = [kind |-> "none"]
    /\ xs = Idle

\* reporter.process_data(data, view_name)
ProcessDataCall ==
    /\ mode = "normalize"
    /\ call.op = "pending"
    /\ call' = [op |-> "process_data", data |-> call.data, view_name |-> call.view_name,
                ret |-> process_data(call.data, call.view_name)]
    /\ ncalls' = ncalls + 1
    /\ UNCHANGED <<views_config, mode, requests, args, pc, pi, vi, dfs, cloud_data,
                   fetched, results, last, xs>>

NextNormalize == ProcessDataCall

SpecNormalize == InitNormalize /\ [][NextNormalize]_vars

(***************************************************************************)
(* pd.concat(dfs, ignore_index=True) (line 255) on frames whose column     *)
(* labels are unique within each frame.                                    *)
(***************************************************************************)
RECURSIVE concat_columns(_)
concat_columns(frames) ==
    IF frames = <<>> THEN <<>>
    ELSE LET front == concat_columns(SubSeq(frames, 1, Len(frames) - 1))
         IN front \o new_keys(front, frames[Len(frames)].columns)

\* One row of frame df laid out on the columns cols
reindex_row(df, row, cols) ==
    [j \in 1..Len(cols) |->
        IF cols[j] \in Range(df.columns)
        THEN row[CHOOSE k \in 1..Len(df.columns) : df.columns[k] = cols[j]]
        ELSE NaN]

RECURSIVE concat_rows(_, _)
concat_rows(frames, cols) ==
    IF frames = <<>> THEN <<>>
    ELSE LET df == frames[Len(frames)]
         IN concat_rows(SubSeq(frames, 1, Len(frames) - 1), cols)
              \o [i \in 1..Len(df.rows) |-> reindex_row(df, df.rows[i], cols)]

\* a concatenation that keeps only the columns every frame has (join='inner')
pd_concat_inner(frames) ==
    LET cols == SelectSeq(concat_columns(frames),
                          LAMBDA c : \A n \in 1..Len(frames) : c \in Range(frames[n].columns))
    IN [kind |-> "df", columns |-> cols, rows |-> concat_rows(frames, cols)]

\* a concatenation that takes the frames last to first
pd_concat_reversed(frames) ==
    LET back == [n \in 1..Len(frames) |-> frames[Len(frames) + 1 - n]]
        cols == concat_columns(back)
    IN [kind |-> "df", columns |-> cols, rows |-> concat_rows(back, cols)]

pd_concat(frames) ==
    LET cols == concat_columns(frames)
    IN [kind |-> "df", columns |-> cols, rows |-> concat_rows(frames, cols)]

(***************************************************************************)
(* export_to_excel (lines 141-223).  xs holds its locals, the workbook of  *)
(* the ExcelWriter and, once it has returned, its return value.            *)
(***************************************************************************)
\* Bound: the batch size CHUNK_SIZE is drawn from 1..MaxChunk (rows are scaled down)
MaxChunk == 2
\* Bound: rows of a table handed directly to export_to_excel
MaxRows == 3
\* Bound: providers in a dict handed directly to export_to_excel
MaxProviders == 2

\* f'{provider.lower()}_data' (line 175)
sheet_name(provider) == str_lower(provider) \o <<"_","d","a","t","a">>

\* cloud_data[provider] = df on an insertion-ordered dict
dict_set(d, provider, df) ==
    IF \E i \in 1..Len(d) : d[i].provider = provider
    THEN [i \in 1..Len(d) |-> IF d[i].provider = provider
                               THEN [provider |-> provider, df |-> df] ELSE d[i]]
    ELSE Append(d, [provider |-> provider, df |-> df])

\* A worksheet never written to
NewSheet == [cells |-> <<>>, previous_row |-> -1]

HeaderRow(columns) == [kind |-> "header", values |-> columns]
DataRow(row) == [kind |-> "data", values |-> row]

\* The sheet rows one chunk.to_excel(...) call writes, first at startrow
excel_rows(chunk_columns, chunk_rows, header) ==
    (IF header THEN <<HeaderRow(chunk_columns)>> ELSE <<>>)
        \o [i \in 1..Len(chunk_rows) |-> DataRow(chunk_rows[i])]

\* chunk.to_excel(writer, sheet_name=..., startrow=...) on the workbook: the sheet
\* is created when the workbook has none of that name.  With constant_memory
\* (line 161) a row below the last row written may be dropped by the worksheet
\* or may replace what is there: late says which.
to_excel(sheets, name, startrow, written, late) ==
    LET old == IF name \in DOMAIN sheets THEN sheets[name] ELSE NewSheet
        target == {startrow + i - 1 : i \in 1..Len(written)}
        taken == {r \in target : r >= old.previous_row \/ late = "replaces"}
        cells == [r \in DOMAIN old.cells \cup taken |->
                    IF r \in taken THEN written[r - startrow + 1] ELSE old.cells[r]]
        top == IF taken = {} THEN old.previous_row
               ELSE LET m == CHOOSE r \in taken : \A q \in taken : q <= r
                    IN IF m > old.previous_row THEN m ELSE old.previous_row
    IN [n \in DOMAIN sheets \cup {name} |->
            IF n = name THEN [cells |-> cells, previous_row |-> top] ELSE sheets[n]]

\* startrow of a mistaken append that forgets the header row
chunk_startrow_no_offset(start_idx) == start_idx

\* startrow of the chunk starting at start_idx (lines 189, 202)
chunk_startrow(start_idx) == IF start_idx = 0 THEN 0 ELSE start_idx + 1

\* header of the chunk starting at start_idx (lines 183-204)
chunk_header(start_idx) == start_idx = 0

\* end_idx = min(start_idx + CHUNK_SIZE, total_rows) (line 180)
chunk_end(start_idx, chunk_size, total_rows) ==
    IF start_idx + chunk_size < total_rows THEN start_idx + chunk_size ELSE total_rows

\* export_to_excel entered with batch size chunk_size
ExportStart(chunk_size) ==
    [pc |-> "open", chunk_size |-> chunk_size, k |-> 0, start_idx |-> 0,
     sheets |-> <<>>, log |-> <<>>, ret |-> "none", error |-> "none", file |-> "absent"]

\* a failure that is swallowed where it happens, the export going on
on_failure_continue(x, err, file) == [x EXCEPT !.error = err]

\* An exception raised in the try block: the with block is left (its __exit__
\* closes the writer), the except clause of line 221 returns False.
on_failure(x, err, file) ==
    [x EXCEPT !.pc = "returned", !.ret = "False", !.error = err, !.file = file]

Exporting == pc = "export" /\ xs.pc \notin {"idle", "returned"}

\* pd.ExcelWriter(...) and workbook.add_format(...) (lines 162-172)
ExportOpen ==
    /\ Exporting /\ xs.pc = "open"
    /\ \E fail \in BOOLEAN :
         xs' = IF fail THEN on_failure(xs, "open", "absent")
               ELSE IF Len(cloud_data) = 0
                    THEN [xs EXCEPT !.pc = "close"]
                    ELSE [xs EXCEPT !.pc = "chunks", !.k = 1, !.start_idx = 0]
    /\ UNCHANGED <<views_config, mode, requests, call, ncalls, args, pc, pi, vi, dfs,
                   cloud_data, fetched, results, last>>

\* One iteration of the loop of line 179: a chunk is written, the first one
\* with the header, which is then formatted (lines 193-195).
ExportChunk ==
    /\ Exporting /\ xs.pc = "chunks"
    /\ LET df == cloud_data[xs.k].df
           name == sheet_name(cloud_data[xs.k].provider)
           total_rows == df_len(df)
           end_idx == chunk_end(xs.start_idx, xs.chunk_size, total_rows)
           startrow == chunk_startrow(xs.start_idx)
           header == chunk_header(xs.start_idx)
           written == excel_rows(df.columns, SubSeq(df.rows, xs.start_idx + 1, end_idx), header)
           overlaps == name \in DOMAIN xs.sheets /\ startrow < xs.sheets[name].previous_row
       IN /\ xs.start_idx < total_rows
          /\ \E fail \in {"none", "to_excel", "header_format"},
                late \in {"dropped", "replaces"} :
               /\ fail = "header_format" => header
               /\ late = "dropped" => overlaps
               /\ late = "replaces" => ~overlaps \/ fail # "to_excel"
               /\ xs' = IF fail = "to_excel"
                        THEN on_failure(xs, "to_excel", "partial")
                        ELSE LET x1 == [xs EXCEPT
                                          !.sheets = to_excel(xs.sheets, name, startrow, written, late),
                                          !.log = Append(xs.log,
                                                    [k |-> xs.k, startrow |-> startrow,
                                                     header |-> header,
                                                     first |-> xs.start_idx, last |-> end_idx - 1]),
                                          !.start_idx = xs.start_idx + xs.chunk_size]
                             IN IF fail = "header_format"
                                THEN on_failure(x1, "header_format", "partial")
                                ELSE x1
    /\ UNCHANGED <<views_config, mode, requests, call, ncalls, args, pc, pi, vi, dfs,
                   cloud_data, fetched, results, last>>

\* Lines 206-216: the worksheet is looked up and its column widths are set,
\* then the loop of line 174 goes on to the next provider.
ExportWidths ==
    /\ Exporting /\ xs.pc = "chunks"
    /\ xs.start_idx >= df_len(cloud_data[xs.k].df)
    /\ \E fail \in BOOLEAN :
         xs' = IF sheet_name(cloud_data[xs.k].provider) \notin DOMAIN xs.sheets
               THEN on_failure(xs, "KeyError", "partial")     \* writer.sheets[sheet_name]
               ELSE IF fail THEN on_failure(xs, "set_column", "partial")
               ELSE IF xs.k = Len(cloud_data)
                    THEN [xs EXCEPT !.pc = "close"]
                    ELSE [xs EXCEPT !.k = xs.k + 1, !.start_idx = 0]
    /\ UNCHANGED <<views_config, mode, requests, call, ncalls, args, pc, pi, vi, dfs,
                   cloud_data, fetched, results, last>>

\* Leaving the with block: the writer is closed and the file saved; return True
ExportClose ==
    /\ Exporting /\ xs.pc = "close"
    /\ \E fail \in BOOLEAN :
         xs' = IF fail THEN on_failure(xs, "close", "partial")
               ELSE [xs EXCEPT !.pc = "returned", !.ret = "True", !.file = "complete"]
    /\ UNCHANGED <<views_config, mode, requests, call, ncalls, args, pc, pi, vi, dfs,
                   cloud_data, fetched, results, last>>

NextExport == ExportOpen \/ ExportChunk \/ ExportWidths \/ ExportClose

\* Dicts handed directly to export_to_excel.  A table is as main builds one:
\* without rows and columns (pd.concat of empty frames), or n >= 1 rows over
\* its columns.
ExportProviders == {AWS, Azure, <<"a","w","s">>}
ExportColumns == <<service, cost>>

ExportTable(provider, n) ==
    LET columns == IF n = 0 THEN <<>> ELSE ExportColumns
    IN [kind |-> "df", columns |-> columns,
        rows |-> [i \in 1..n |->
                    [j \in 1..Len(columns) |-> Value(<<provider, i>>, columns[j])]]]

ExportInputs ==
    {d \in SeqUpTo({[provider |-> p, df |-> ExportTable(p, n)] :
                        p \in ExportProviders, n \in 0..MaxRows},
                   MaxProviders) :
        \A i, j \in 1..Len(d) : i # j => d[i].provider # d[j].provider}

InitExport ==
    /\ views_config = TestViewsConfig
    /\ mode = "export"
    /\ requests = <<>>
    /\ call = NoCall
    /\ ncalls = 0
    /\ args = [start_date |-> "2024-01-01", end_date |-> "2024-01-31"]
    /\ pc = "export"
    /\ pi = 0
    /\ vi = 0
    /\ dfs = <<>>
    /\ cloud_data \in ExportInputs
    /\ fetched = <<>>
    /\ results = <<>>
    /\ last = [kind |-> "none"]
    /\ xs \in {ExportStart(c) : c \in 1..MaxChunk}

SpecExport == InitExport /\ [][NextExport]_vars

(***************************************************************************)
(* main() (lines 226-259): the loops over providers and views, then the    *)
(* export.  One view iteration (lines 243-252) is one step.                *)
(***************************************************************************)
\* The provider list of line 240
MainProviders == <<AWS, Azure>>

\* Bound: records per response in a run of main
MaxRunRecords == 2

\* Key sequences of the records the Report Source returns in a run; the
\* records of one response share their fields.
RunKeySeqs == {<<cost>>, <<UnitCost, cost>>}

\* What the Report Source may answer to the request for view_name in a run
RunOutcomes(view_name) ==
    {Failure(f) : f \in TransportFailures}
        \cup {Ok(EmptyBody), Ok(NoDataBody)}
        \cup {Ok(DataBody([i \in 1..n |-> ks], view_name)) :
                n \in 0..MaxRunRecords, ks \in RunKeySeqs}

\* Python truth value of what get_report returned (line 249)
truthy(data) == data.kind # "None" /\ data.truthy

InitRun ==
    /\ views_config \in ViewsFiles
    /\ mode = "run"
    /\ requests = <<>>
    /\ call = NoCall
    /\ ncalls = 0
    /\ args = [start_date |-> "2024-01-01", end_date |-> "2024-01-31"]
    /\ pc = "for_provider"
    /\ pi = 1
    /\ vi = 0
    /\ dfs = <<>>
    /\ cloud_data = <<>>
    /\ fetched = <<>>
    /\ results = <<>>
    /\ last = [kind |-> "none"]
    /\ xs = Idle

\* for provider in ['AWS', 'Azure']: dfs = []; reporter.views_config[provider].keys()
MainEnterProvider ==
    /\ mode = "run" /\ pc = "for_provider" /\ pi <= Len(MainProviders)
    /\ dfs' = <<>>
    /\ IF has_provider(views_config, MainProviders[pi])
       THEN /\ pc' = "for_view"
            /\ vi' = 1
            /\ last' = [kind |-> "provider", provider |-> MainProviders[pi]]
       ELSE /\ pc' = "crashed"        \* KeyError at line 242 leaves main
            /\ vi' = vi
            /\ last' = [kind |-> "raised", error |-> "KeyError", line |-> 242]
    /\ UNCHANGED <<views_config, mode, requests, call, ncalls, args, pi, cloud_data,
                   fetched, results, xs>>

\* Lines 243-252 for one view
MainView ==
    /\ mode = "run" /\ pc = "for_view"
    /\ LET provider == MainProviders[pi]
           names == view_names(views_config, provider)
       IN /\ vi <= Len(names)
          /\ \E o \in RunOutcomes(names[vi]) :
               LET r == get_report(views_config, provider, names[vi],
                                   args.start_date, args.end_date, o)
                   df == IF r.raised = NoException /\ truthy(r.ret)
                         THEN process_data(r.ret, names[vi]) ELSE None
               IN /\ requests' = requests \o r.issued
                  /\ fetched' = Append(fetched, <<provider, names[vi]>>)
                  /\ results' = Append(results, [provider |-> provider,
                                                 view_name |-> names[vi], df |-> df])
                  /\ last' = [kind |-> "view", provider |-> provider, view_name |-> names[vi],
                              outcome |-> o, ret |-> r.ret, raised |-> r.raised,
                              issued |-> r.issued,
                              processed |-> (r.raised = NoException /\ truthy(r.ret)),
                              df |-> df, dfs_before |-> dfs]
                  /\ IF r.raised # NoException
                     THEN /\ pc' = "crashed" /\ vi' = vi /\ dfs' = dfs
                     ELSE /\ pc' = pc
                          /\ vi' = vi + 1
                          /\ dfs' = IF df # None THEN Append(dfs, df) ELSE dfs
    /\ UNCHANGED <<views_config, mode, call, ncalls, args, pi, cloud_data, xs>>

\* an aggregation that forgets the test of line 254
aggregate_unguarded(cd, provider, frames) == dict_set(cd, provider, pd_concat(frames))

\* if dfs: cloud_data[provider] = pd.concat(dfs, ignore_index=True) (lines 254-255)
aggregate(cd, provider, frames) ==
    IF frames # <<>> THEN dict_set(cd, provider, pd_concat(frames)) ELSE cd

\* Lines 254-255, then the next provider
MainEndProvider ==
    /\ mode = "run" /\ pc = "for_view"
    /\ vi > Len(view_names(views_config, MainProviders[pi]))
    /\ cloud_data' = aggregate(cloud_data, MainProviders[pi], dfs)
    /\ pi' = pi + 1
    /\ pc' = "for_provider"
    /\ last' = [kind |-> "provider_end", provider |-> MainProviders[pi]]
    /\ UNCHANGED <<views_config, mode, requests, call, ncalls, args, vi, dfs, fetched, results, xs>>

\* Lines 257-259: the export is called when cloud_data is not empty
MainAfterLoops ==
    /\ mode = "run" /\ pc = "for_provider" /\ pi > Len(MainProviders)
    /\ IF cloud_data # <<>>
       THEN /\ pc' = "export"
            /\ xs' \in {ExportStart(c) : c \in 1..MaxChunk}
       ELSE /\ pc' = "done"
            /\ xs' = xs
    /\ last' = [kind |-> "after_loops"]
    /\ UNCHANGED <<views_config, mode, requests, call, ncalls, args, pi, vi, dfs,
                   cloud_data, fetched, results>>

\* export_to_excel has returned; main ends
MainExportReturned ==
    /\ mode = "run" /\ pc = "export" /\ xs.pc = "returned"
    /\ pc' = "done"
    /\ UNCHANGED <<views_config, mode, requests, call, ncalls, args, pi, vi, dfs,
                   cloud_data, fetched, results, last, xs>>

Next ==
    \/ MainEnterProvider
    \/ MainView
    \/ MainEndProvider
    \/ MainAfterLoops
    \/ MainExportReturned
    \/ NextExport

Spec == InitRun /\ [][Next]_vars

(***************************************************************************)
(* Claims about process_data, under SpecNormalize.                         *)
(***************************************************************************)
CategoryCol == <<"c","a","t","e","g","o","r","y">>

\* The category the test suite expects for each view
category_for(view_name) ==
    CASE view_name = "aws_view1" -> "core"
      [] view_name = "aws_view2" -> "product1"
      [] view_name = "azure_view1" -> "product2"
      [] view_name = "azure_view2" -> "product3"
      [] OTHER -> "none"

RegisteredViewNames == {"aws_view1", "aws_view2", "azure_view1", "azure_view2"}

Called == call.op = "process_data"

\* C1: for every registered view and every response with at least one record,
\* the table process_data returns has 'category' as its first column and every
\* row holds the view's category there.
C1_CategoryFirst ==
    (Called /\ call.view_name \in RegisteredViewNames
        /\ call.data.hasData /\ Len(call.data.data) >= 1)
    => /\ call.ret.kind = "df"
       /\ Len(call.ret.columns) >= 1
       /\ call.ret.columns[1] = CategoryCol
       /\ \A i \in 1..Len(call.ret.rows) :
            call.ret.rows[i][1] = [kind |-> "category", value |-> category_for(call.view_name)]

\* C2: an empty data sequence gives a zero-row table, a response without a
\* data field gives None and never a table.
C2_EmptyVsMissing ==
    Called =>
        /\ (call.data.hasData /\ call.data.data = <<>>)
              => (call.ret.kind = "df" /\ Len(call.ret.rows) = 0)
        /\ ~call.data.hasData => call.ret = None

C2_Witness ==
    /\ Called /\ call.data.hasData /\ call.data.data = <<>>
    /\ call.ret.kind = "df" /\ Len(call.ret.rows) = 0

\* Lower-snake form of a raw field name, character by character
LowerSnake(name) ==
    [i \in 1..Len(name) |->
        IF name[i] = " " THEN "_"
        ELSE IF \E k \in 1..26 : UPPER[k] = name[i]
             THEN LOWER[CHOOSE k \in 1..26 : UPPER[k] = name[i]]
             ELSE name[i]]

\* C3: every column name of a returned table is the raw name of the field its
\* cells came from, lower-cased with spaces replaced by underscores, and holds
\* no upper-case letter and no space.
C3_LowerSnakeColumns ==
    (Called /\ call.ret.kind = "df") =>
        \A j \in 1..Len(call.ret.columns) :
            /\ \A c \in Range(call.ret.columns[j]) : c # " " /\ c \notin Range(UPPER)
            /\ \A i \in 1..Len(call.ret.rows) :
                 call.ret.rows[i][j].kind = "val"
                    => call.ret.columns[j] = LowerSnake(call.ret.rows[i][j].field)

C3_Witness ==
    /\ Called /\ call.ret.kind = "df"
    /\ \E j \in 1..Len(call.ret.columns) :
         /\ call.ret.columns[j] = unit_cost
         /\ \E i \in 1..Len(call.ret.rows) :
              call.ret.rows[i][j].kind = "val" /\ call.ret.rows[i][j].field = UnitCost

(***************************************************************************)
(* Claims about get_report, under SpecFetch.                               *)
(***************************************************************************)
Fetched == call.op = "get_report"

\* The registry entries of (provider, view): none when the pair is not registered
RegistryEntries(p, v) ==
    {e \in UNION {Range(views_config[i].views) :
                    i \in {k \in 1..Len(views_config) : views_config[k].provider = p}} :
        e.name = v}

\* C4: a provider outside the registry, or a view not configured for the
\* provider, gives None and no request to the Report Source.
C4_InvalidConfigNoRequest ==
    (Fetched /\ RegistryEntries(call.cloud_provider, call.view_name) = {})
    => /\ call.ret = None
       /\ call.raised = NoException
       /\ Len(requests) = call.before

C4_Witness ==
    /\ Fetched /\ call.cloud_provider = GCP /\ call.ret = None
    /\ Len(requests) = call.before

\* C5: for a registered (provider, view) with configured dimensions and
\* metrics, one call issues exactly one request, carrying exactly those
\* dimensions and metrics and the dates passed in; when the request succeeds
\* the response body is returned unchanged.
C5_OneRequestPerCall ==
    Fetched =>
        \A e \in RegistryEntries(call.cloud_provider, call.view_name) :
            {"dimensions", "metrics"} \subseteq DOMAIN e.config
            => /\ Len(requests) = call.before + 1
               /\ requests[Len(requests)].dimensions = e.config.dimensions
               /\ requests[Len(requests)].metrics = e.config.metrics
               /\ requests[Len(requests)].start_date = call.start_date
               /\ requests[Len(requests)].end_date = call.end_date
               /\ call.raised = NoException
               /\ call.outcome.kind = "ok" => call.ret = call.outcome.body

C5_Witness ==
    /\ Fetched /\ call.cloud_provider = AWS /\ call.view_name = "aws_view2"
    /\ call.start_date # call.end_date
    /\ call.outcome.kind = "ok" /\ call.ret = call.outcome.body
    /\ Len(requests) = call.before + 1
    /\ requests[Len(requests)].dimensions = <<"service","resource","tags","account","region">>

(***************************************************************************)
(* Claims about export_to_excel, under SpecExport.                         *)
(***************************************************************************)
\* The to_excel calls made for the k-th provider of cloud_data
WritesOf(k) == {n \in 1..Len(xs.log) : xs.log[n].k = k}

\* The sheet row at which call n wrote data row i (0-based), for first <= i <= last
DataSheetRow(n, i) ==
    xs.log[n].startrow + (IF xs.log[n].header THEN 1 ELSE 0) + (i - xs.log[n].first)

\* The calls that wrote data row i of the k-th provider
WritesOfRow(k, i) == {n \in WritesOf(k) : xs.log[n].first <= i /\ i <= xs.log[n].last}

\* The batch loop of the k-th provider has run to its end
BatchesDone(k) ==
    /\ xs.pc # "idle"
    /\ \/ k < xs.k
       \/ k = xs.k /\ xs.start_idx >= df_len(cloud_data[k].df)
                   /\ xs.error \notin {"to_excel", "header_format"}

\* No other provider of cloud_data shares the worksheet name of the k-th
OwnSheet(k) ==
    \A j \in 1..Len(cloud_data) :
        j # k => sheet_name(cloud_data[j].provider) # sheet_name(cloud_data[k].provider)

\* The worksheet of the k-th provider is exactly its header row followed by its rows
SheetExact(k) ==
    LET df == cloud_data[k].df
        name == sheet_name(cloud_data[k].provider)
    IN /\ name \in DOMAIN xs.sheets
       /\ DOMAIN xs.sheets[name].cells = 0..df_len(df)
       /\ xs.sheets[name].cells[0] = HeaderRow(df.columns)
       /\ \A i \in 1..df_len(df) : xs.sheets[name].cells[i] = DataRow(df.rows[i])

\* C8: a table of N >= 1 rows exported in batches of size B >= 1 gets exactly
\* one header row, at sheet row 0, written by the first batch only, and data
\* row i is written exactly once, at sheet row i + 1; its worksheet then holds
\* the header row and the N data rows and nothing else.
C8_ChunkingLaw ==
    \A k \in 1..Len(cloud_data) :
        LET N == df_len(cloud_data[k].df)
        IN /\ \A n \in WritesOf(k) :
                /\ xs.log[n].header => (xs.log[n].startrow = 0 /\ xs.log[n].first = 0)
                /\ xs.log[n].first > 0 => ~xs.log[n].header
           /\ Cardinality({n \in WritesOf(k) : xs.log[n].header}) <= 1
           /\ \A i \in 0..(N - 1) :
                /\ Cardinality(WritesOfRow(k, i)) <= 1
                /\ \A n \in WritesOfRow(k, i) : DataSheetRow(n, i) = i + 1
           /\ (N >= 1 /\ BatchesDone(k)) =>
                /\ Cardinality({n \in WritesOf(k) : xs.log[n].header}) = 1
                /\ \A i \in 0..(N - 1) : Cardinality(WritesOfRow(k, i)) = 1
                /\ OwnSheet(k) => SheetExact(k)

C8_Witness ==
    /\ xs.pc = "returned" /\ xs.ret = "True"
    /\ \E k \in 1..Len(cloud_data) :
         /\ df_len(cloud_data[k].df) = 3
         /\ xs.chunk_size = 2
         /\ Cardinality(WritesOf(k)) = 2
         /\ OwnSheet(k) /\ SheetExact(k)

\* The worksheet of the k-th provider holds its header row and all its data
\* rows (a table without columns has no header cell and no data cell)
SheetComplete(k) ==
    LET df == cloud_data[k].df
        name == sheet_name(cloud_data[k].provider)
    IN /\ name \in DOMAIN xs.sheets
       /\ Len(df.columns) > 0 =>
            /\ 0 \in DOMAIN xs.sheets[name].cells
            /\ xs.sheets[name].cells[0] = HeaderRow(df.columns)
            /\ \A i \in 1..df_len(df) :
                 /\ i \in DOMAIN xs.sheets[name].cells
                 /\ xs.sheets[name].cells[i] = DataRow(df.rows[i])

\* C9: export_to_excel returns True only if every provider's worksheet holds
\* the header row and all of that provider's data rows.
C9_TrueOnlyIfComplete ==
    (xs.pc = "returned" /\ xs.ret = "True")
        => \A k \in 1..Len(cloud_data) : SheetComplete(k)

\* C10: a failure at any step makes export_to_excel return False, and once a
\* failure has happened nothing more is written to the workbook.
C10_FailureAborts ==
    /\ [](xs.pc # "idle" /\ xs.error # "none" => xs.pc = "returned" /\ xs.ret = "False")
    /\ [][(xs.pc # "idle" /\ xs.error # "none")
            => (xs'.sheets = xs.sheets /\ xs'.log = xs.log)]_vars

C10_Witness ==
    /\ xs.pc = "returned" /\ xs.ret = "False" /\ xs.error = "set_column"
    /\ Len(cloud_data) = 2 /\ xs.k = 1
    /\ df_len(cloud_data[2].df) >= 1
    /\ xs.log # <<>>
    /\ \A n \in 1..Len(xs.log) : xs.log[n].k = 1

RegisteredPairs(p) ==
    IF \E i \in 1..Len(views_config) : views_config[i].provider = p
    THEN LET vs == views_config[CHOOSE i \in 1..Len(views_config) :
                                    views_config[i].provider = p].views
         IN [n \in 1..Len(vs) |-> <<p, vs[n].name>>]
    ELSE <<>>

\* C7: whatever fails for a view or a provider, a run fetches every view of
\* the registry for main's providers exactly once, in the registry's order.
C7_EveryViewFetchedOnce ==
    pc \in {"done", "crashed"} => fetched = RegisteredPairs(AWS) \o RegisteredPairs(Azure)


(***************************************************************************)
(* Claims about the workbook, under SpecExport.                            *)
(***************************************************************************)
\* C11: when export_to_excel has returned True, the workbook has exactly one
\* worksheet per provider of cloud_data: as many worksheets as providers, and
\* for each provider the worksheet named sheet_name(provider).
C11_OneSheetPerProvider ==
    (mode = "export" /\ xs.ret = "True") =>
        /\ Cardinality(DOMAIN xs.sheets) = Len(cloud_data)
        /\ \A k \in 1..Len(cloud_data) :
             sheet_name(cloud_data[k].provider) \in DOMAIN xs.sheets

(***************************************************************************)
(* Claims about the dict main builds, under Spec.                          *)
(***************************************************************************)
\* The frames process_data gave for the views of provider p, in order
FramesOf(p) ==
    SelectSeq(results, LAMBDA r : r.provider = p /\ r.df # None)

\* C12: every entry of the cloud_data a run builds has a table of at least one
\* row, and belongs to a provider one of whose views gave a frame of at least
\* one row.
C12_EntriesNonEmpty ==
    mode = "run" =>
        \A k \in 1..Len(cloud_data) :
            /\ df_len(cloud_data[k].df) >= 1
            /\ \E i \in 1..Len(FramesOf(cloud_data[k].provider)) :
                 df_len(FramesOf(cloud_data[k].provider)[i].df) >= 1

\* cloud_data has an entry for provider p
HasEntry(p) == \E k \in 1..Len(cloud_data) : cloud_data[k].provider = p

\* export_to_excel has not been entered: no writer was opened, no file exists
NotExported == pc # "export" /\ xs = Idle /\ xs.file = "absent"

\* C13: in a run, a provider none of whose views gave a frame has no entry in
\* cloud_data, and as long as no view of any provider has given a frame
\* export_to_excel is not entered and no output file exists.
C13_NoSuccessNoExport ==
    mode = "run" =>
        /\ \A j \in 1..Len(MainProviders) :
             FramesOf(MainProviders[j]) = <<>> => ~HasEntry(MainProviders[j])
        /\ (\A i \in 1..Len(results) : results[i].df = None) => NotExported

\* main has ended after all four views of the test registry failed
C13_Witness ==
    /\ mode = "run" /\ pc = "done"
    /\ Len(results) = 4
    /\ \A i \in 1..Len(results) : results[i].df = None
    /\ cloud_data = <<>>
    /\ NotExported

\* The value row holds under the column named c of table df
CellAt(df, row, c) == row[CHOOSE j \in 1..Len(df.columns) : df.columns[j] = c]

\* Row i of frame f appears in table t: its own values under its own columns,
\* NaN under every other column of t
RowCarried(t, f, i) ==
    \E r \in 1..df_len(t) :
        \A c \in Range(t.columns) :
            CellAt(t, t.rows[r], c) = IF c \in Range(f.columns)
                                      THEN CellAt(f, f.rows[i], c)
                                      ELSE NaN

\* C14: the table a run stores for a provider has as column set exactly the
\* union of the column sets of the frames of the provider's views, and every
\* row of a frame is in it with its own values under the frame's columns and
\* NaN under the columns the frame lacks.
C14_UnionColumns ==
    mode = "run" =>
        \A k \in 1..Len(cloud_data) :
            LET t == cloud_data[k].df
                fs == FramesOf(cloud_data[k].provider)
            IN /\ Range(t.columns) = UNION {Range(fs[n].df.columns) : n \in 1..Len(fs)}
               /\ \A n \in 1..Len(fs) :
                    \A i \in 1..df_len(fs[n].df) : RowCarried(t, fs[n].df, i)

\* A stored table built from two frames with rows and different column sets,
\* the row of the narrower frame holding NaN under the column it lacks
C14_Witness ==
    /\ mode = "run"
    /\ \E k \in 1..Len(cloud_data) :
         LET t == cloud_data[k].df
             fs == FramesOf(cloud_data[k].provider)
         IN /\ Len(fs) = 2
            /\ df_len(fs[1].df) >= 1 /\ df_len(fs[2].df) >= 1
            /\ Range(fs[1].df.columns) # Range(fs[2].df.columns)
            /\ \E r \in 1..df_len(t) : \E j \in 1..Len(t.columns) : t.rows[r][j] = NaN

\* The (view, position in the response) pairs of the records of the frames fs,
\* views in the order main called them, records in response order
RECURSIVE ExpectedRows(_)
ExpectedRows(fs) ==
    IF fs = <<>> THEN <<>>
    ELSE LET f == fs[Len(fs)]
         IN ExpectedRows(SubSeq(fs, 1, Len(fs) - 1))
              \o [i \in 1..df_len(f.df) |-> <<f.view_name, i>>]

\* Row row holds values of the record rec and of no other record
RowOf(row, rec) ==
    /\ \E j \in 1..Len(row) : row[j] # NaN
    /\ \A j \in 1..Len(row) : row[j] # NaN => row[j].id = rec

\* C15: the table a run stores for a provider has one row per record of the
\* provider's frames and no other row, the rows standing in the order of the
\* views (as main called them, which is registry order) and, within a view,
\* in the order of the records in the response.
C15_RowsInOrder ==
    mode = "run" =>
        \A k \in 1..Len(cloud_data) :
            LET t == cloud_data[k].df
                expected == ExpectedRows(FramesOf(cloud_data[k].provider))
            IN /\ df_len(t) = Len(expected)
               /\ \A r \in 1..df_len(t) : RowOf(t.rows[r], expected[r])
               /\ [n \in 1..Len(FramesOf(cloud_data[k].provider)) |->
                       FramesOf(cloud_data[k].provider)[n].view_name]
                    = SelectSeq([v \in 1..Len(view_names(views_config, cloud_data[k].provider)) |->
                                    view_names(views_config, cloud_data[k].provider)[v]],
                                LAMBDA name : \E n \in 1..Len(results) :
                                    /\ results[n].provider = cloud_data[k].provider
                                    /\ results[n].view_name = name
                                    /\ results[n].df # None)

\* A stored table holding the two records of the provider's first view, in
\* response order, then the record of its second view
C15_Witness ==
    /\ mode = "run"
    /\ \E k \in 1..Len(cloud_data) :
         LET t == cloud_data[k].df
             names == view_names(views_config, cloud_data[k].provider)
         IN /\ Len(names) = 2 /\ df_len(t) = 3
            /\ RowOf(t.rows[1], <<names[1], 1>>)
            /\ RowOf(t.rows[2], <<names[1], 2>>)
            /\ RowOf(t.rows[3], <<names[2], 1>>)

\* Some view entry of the registry lacks its dimensions or its metrics list
MalformedRegistry(cfg) ==
    \E i \in 1..Len(cfg) : \E j \in 1..Len(cfg[i].views) :
        ~({"dimensions", "metrics"} \subseteq DOMAIN cfg[i].views[j].config)

\* C16: a registry with a view entry lacking dimensions or metrics is rejected
\* when loaded: in a run on such a registry get_report is never called and no
\* request is issued.
C16_MalformedRejected ==
    (mode = "run" /\ MalformedRegistry(views_config)) =>
        fetched = <<>> /\ requests = <<>>

\* C17: whenever export_to_excel reaches the worksheet lookup of line 207 for
\* a provider (the batch loop of that provider is over), the workbook holds
\* the provider's worksheet and a batch write of that provider created it;
\* this for every table of a cloud_data built by a run, zero-row tables
\* included.
C17_SheetExistsAtLookup ==
    (mode = "run" /\ pc = "export" /\ xs.pc = "chunks"
        /\ xs.start_idx >= df_len(cloud_data[xs.k].df)) =>
        /\ sheet_name(cloud_data[xs.k].provider) \in DOMAIN xs.sheets
        /\ \E n \in 1..Len(xs.log) : xs.log[n].k = xs.k

(***************************************************************************)
(* Claims about column names, under SpecNormalize.                         *)
(***************************************************************************)
\* The distinct raw field names of the records of a response body
RawFieldNames(data) == UNION {Range(data.data[i].keys) : i \in 1..Len(data.data)}

\* C18: the column names of a table process_data returns are pairwise
\* distinct, and the table has as many columns as the records of the response
\* have distinct raw field names.
C18_ColumnsStayDistinct ==
    (Called /\ call.ret # None) =>
        /\ Distinct(call.ret.columns)
        /\ Len(call.ret.columns) = Cardinality(RawFieldNames(call.data))

============================================================================
